---- MODULE Spec2Model ----
(***************************************************************************)
(* Model of the publication recommender: the Neo4j graph store with its    *)
(* GDS graph catalog (storage/neo4j_store.py), the request handlers and    *)
(* the background task that rebuild the community partition                *)
(* (api/publications.py, tasks.py, celery_inst.py), the Postgres           *)
(* embedding table behind one shared connection                            *)
(* (storage/postgres_store.py), and the /recommend request handler         *)
(* (api/interface.py).                                                     *)
(*                                                                         *)
(* Every Cypher / SQL statement a handler sends is one atomic step; the    *)
(* handlers take no lock, so the steps of concurrent requests interleave.  *)
(***************************************************************************)
EXTENDS Integers, FiniteSets, Sequences, TLC

\* ------------------------------------------------------------------ bounds
\* Concurrent request-handling threads (Flask threads and Celery workers).
NThreads == 2
\* Cap on the number of requests served in one behaviour.
MaxRequests == 3
\* Largest k a caller passes to generate_candidates.
MaxK == 2
\* Cap on the number of VectorStore calls served in one behaviour.
MaxVecRequests == 3
\* Longest batch handed to insert_pkeys_embeds.
MaxBatch == 2

\* Cap on the number of /recommend requests served in one behaviour.
MaxRecRequests == 2
\* The k of a /recommend request that names none.
DefaultK == 25
\* Stands for the float nan among the similarities, which are hundredths.
NaN == -1000

\* batchsize of generate_all_embeds (stands for 10000).
BatchSize == 2

Threads == 1..NThreads

\* Publication keys; InitPubs are in the graph before the first request.
PKeys == {"p1", "p2", "p3"}
InitPubs == {"p1", "p2"}
\* The key sets the external parser may report for an uploaded file.
Files == {{"p3"}}
\* Community ids the Louvain run may write; None is Neo4j's null.
CIds == {"c1", "c2"}
None == "None"
\* The declared length of column embed (two components stand for the 512 of
\* FLOAT8[512]).
Dim == 2
\* Embedding vectors of the declared length, and one that is shorter.
Vecs == {<<1, 0>>, <<0, 1>>}
ShortVec == <<1>>
\* A vector of norm zero, and the vectors the table may hold when a
\* /recommend request arrives.
ZeroVec == <<0, 0>>
RecVecs == Vecs \cup {ZeroVec}
\* The keys callers of the VectorStore name.
VKeys == {"p1", "p2"}

VARIABLES
    pubs,          \* Publication nodes in Neo4j (their keys)
    community_id,  \* node property community_id, None when absent
    graphs,        \* GDS graph catalog: graph name -> projected graph
    similar,       \* SIMILAR relationships
    embeds,        \* committed rows of table embeds: pkey -> vector or None
    th,            \* per-thread handler state
    nreq,          \* history: number of requests accepted so far
    epoch,         \* history: number of rebuilds begun so far
    partStart,     \* history: epoch at which the rebuild that wrote the
                   \*   current partition began
    lastRebuilt,   \* history: nodes of the projection of the last successful
                   \*   partition rebuild
    txn,           \* rows inserted in the open transaction of the one
                   \*   connection every thread shares: pkey -> vector or NoVec
    vth,           \* per-thread state of a VectorStore call
    nvreq,         \* history: number of VectorStore calls accepted so far
    lastUpsert,    \* history: pkey -> vector of the last insert call of that
                   \*   key that committed, NoVec when none did
    authored,      \* the publications that have an AUTHORED_BY relationship,
                   \*   in the order the store yields them
    rec,           \* per-thread state of a /recommend request
    bf             \* state of the /db/init/embed request (the bulk backfill)

vars == <<pubs, community_id, graphs, similar, embeds, th, nreq, epoch, partStart,
          lastRebuilt, txn, vth, nvreq, lastUpsert, authored, rec, bf>>
\* What the graph handlers leave alone, and what the VectorStore calls do.
vecOnly == <<txn, vth, nvreq, lastUpsert, authored, rec, bf>>
graphOnly == <<pubs, community_id, graphs, similar, th, nreq, epoch, partStart, lastRebuilt,
               authored, rec, bf>>

\* ------------------------------------------------------------ graph names
BibGraph == "bib_community"
SimGraphName(cid) == "sim_graph_" \o cid

\* ---------------------------------------------------------------- scores
\* gds.nodeSimilarity is an external collaborator: a symmetric score per
\* pair of publications, given here in hundredths.
PairScore(a, b) ==
    IF {a, b} = {"p1", "p2"} THEN 90 ELSE 10

\* gds.nodeSimilarity.write on a projected graph: one SIMILAR relationship
\* per ordered pair of distinct nodes of the projection.
SimPairs(nodes) == {pr \in nodes \X nodes : pr[1] # pr[2]}

\* Parallel SIMILAR relationships of one pair written in one epoch are told
\* apart by their copy number.
Copies(sim, a, b, born) ==
    Cardinality({e \in sim : e.src = a /\ e.dst = b /\ e.born = born})

NewEdges(sim, nodes, born) ==
    {[src |-> pr[1], dst |-> pr[2], score |-> PairScore(pr[1], pr[2]),
      born |-> born, copy |-> Copies(sim, pr[1], pr[2], born) + 1] :
        pr \in SimPairs(nodes)}

\* ------------------------------------------------------------- embeddings
\* The text encoder is external: one fixed vector per publication title.
NoVec == <<>>
Encode(p) ==
    IF p = "p3" THEN <<0, 1>> ELSE <<1, 0>>

\* What a statement on the shared connection sees: the committed table
\* overlaid with the rows of the open transaction.
Visible(tbl, pend) ==
    [k \in PKeys |-> IF pend[k] # NoVec THEN pend[k] ELSE tbl[k]]

NoRows == [k \in PKeys |-> NoVec]

\* INSERT INTO embeds VALUES (k, v) ON CONFLICT (pkey) DO NOTHING
InsertRow(tbl, pend, k, v) ==
    IF Visible(tbl, pend)[k] # NoVec THEN pend ELSE [pend EXCEPT ![k] = v]

\* cur.executemany: the statement once per row, in order.
RECURSIVE ExecuteMany(_, _, _)
ExecuteMany(tbl, pend, rows) ==
    IF rows = <<>> THEN pend
    ELSE ExecuteMany(tbl, InsertRow(tbl, pend, Head(rows)[1], Head(rows)[2]), Tail(rows))

\* get_titles orders by pkey; the keys of the model sort as strings.
KeyLess(a, b) ==
    \/ a = "p1" /\ b \in {"p2", "p3"}
    \/ a = "p2" /\ b = "p3"

RECURSIVE SortedKeys(_)
SortedKeys(S) ==
    IF S = {} THEN <<>>
    ELSE LET m == CHOOSE x \in S : \A y \in S \ {x} : KeyLess(x, y)
         IN <<m>> \o SortedKeys(S \ {m})

\* _make_embed: (pkey, embedding) rows of the records get_titles returned.
EmbedRows(keys) ==
    [i \in 1..Cardinality(keys) |->
        <<SortedKeys(keys)[i], Encode(SortedKeys(keys)[i])>>]

\* ---------------------------------------------------------- thread state
RebuildKinds == {"reset_graph", "upload", "task"}
\* The steps between the first and the last statement of a rebuild.
RebuildPcs == {"drop", "dropsim", "project", "louvain"}
GenPcs == {"cid", "exists", "simproject", "simwrite", "query"}

IdleTh ==
    [kind |-> "none", pc |-> "idle", pkey |-> "none", k |-> 0, cid |-> None,
     keys |-> {}, listed |-> {}, myEpoch |-> 0, outcome |-> "none",
     result |-> {}, raced |-> "none", complete |-> FALSE, sawPrior |-> FALSE,
     wrote |-> FALSE, embedded |-> FALSE, again |-> FALSE, kstr |-> FALSE]

InRebuild(t) == th[t].pc \in RebuildPcs
RebuildInFlight == \E t \in Threads : InRebuild(t)
Free(t) == th[t].pc \in {"idle", "done"}

\* The handler returns or raises; only what it hands back is kept.
Finish(t, how) ==
    [th EXCEPT ![t].pc = "done", ![t].outcome = how,
               ![t].listed = {}, ![t].keys = {}, ![t].pkey = "none", ![t].k = 0]

IdleRec ==
    [pc |-> "idle", pkey |-> "none", kgiven |-> FALSE, target |-> NoVec,
     out |-> <<>>, outcome |-> "none"]

\* titled: the keys whose publication has a non-empty title; pubs0, embeds0
\* and seen are history: the publications and the table when the request
\* began, and the keys of the pages fetched so far.
IdleBf ==
    [pc |-> "idle", i |-> 0, num |-> 0, titled |-> PKeys, pubs0 |-> {},
     embeds0 |-> [k \in PKeys |-> <<>>], seen |-> <<>>]

IdleVth ==
    [op |-> "none", pc |-> "idle", batch |-> <<>>, rows |-> <<>>, keys |-> {},
     out |-> <<>>, outcome |-> "none", prev |-> <<>>, after |-> FALSE]

\* Nothing in flight, the embeds table as create_embed_table leaves it.
InitRest ==
    /\ pubs = InitPubs
    /\ similar = {}
    /\ embeds = NoRows
    /\ th = [t \in Threads |-> IdleTh]
    /\ nreq = 0
    /\ epoch = 0
    /\ partStart = 0
    /\ txn = NoRows
    /\ vth = [t \in Threads |-> IdleVth]
    /\ nvreq = 0
    /\ lastUpsert = NoRows
    /\ authored = <<"p1", "p2">>
    /\ rec = [t \in Threads |-> IdleRec]
    /\ bf = IdleBf

\* A graph database no partition was ever built on.
InitFresh ==
    /\ community_id = [p \in PKeys |-> None]
    /\ graphs = [n \in {} |-> n]
    /\ lastRebuilt = {}

\* The graph database outlives the web application: at start-up it is either
\* fresh or holds the partition an earlier run of reset_graph left.
Init ==
    /\ InitRest
    /\ \/ InitFresh
       \/ /\ \E f \in [InitPubs -> CIds] :
                community_id = [p \in PKeys |-> IF p \in InitPubs THEN f[p] ELSE None]
          /\ graphs = [n \in {BibGraph} |->
                         [nodes |-> InitPubs, born |-> 0, written |-> FALSE]]
          /\ lastRebuilt = InitPubs

\* ------------------------------------------------- rebuild entry points
\* GET /db/init/reset_graph
StartReset(t) ==
    /\ Free(t)
    /\ nreq < MaxRequests
    /\ nreq' = nreq + 1
    /\ th' = [th EXCEPT ![t] = [IdleTh EXCEPT !.kind = "reset_graph", !.pc = "list"]]
    /\ UNCHANGED <<pubs, community_id, graphs, similar, embeds, epoch, partStart, lastRebuilt>>
    /\ UNCHANGED vecOnly

\* POST /upload (kind "upload") and the Celery task upload_data (kind
\* "task"): the external parser has stored the file's publications.
StartUpload(t, kind, keys) ==
    /\ Free(t)
    /\ nreq < MaxRequests
    /\ nreq' = nreq + 1
    /\ pubs' = pubs \cup keys
    /\ th' = [th EXCEPT ![t] = [IdleTh EXCEPT !.kind = kind, !.pc = "list", !.keys = keys]]
    /\ UNCHANGED <<community_id, graphs, similar, embeds, epoch, partStart, lastRebuilt>>
    /\ UNCHANGED vecOnly

\* POST /upload_data_only: parse and store, nothing else.
UploadOnly(t, keys) ==
    /\ Free(t)
    /\ nreq < MaxRequests
    /\ nreq' = nreq + 1
    /\ pubs' = pubs \cup keys
    /\ th' = [th EXCEPT ![t] = [IdleTh EXCEPT !.kind = "upload_only", !.pc = "done", !.outcome = "ok"]]
    /\ UNCHANGED <<community_id, graphs, similar, embeds, epoch, partStart, lastRebuilt>>
    /\ UNCHANGED vecOnly

\* drop_graphs, first statement: CALL gds.graph.list(). The rebuild begins.
DropGraphsList(t) ==
    /\ th[t].pc = "list"
    /\ epoch' = epoch + 1
    /\ th' = [u \in Threads |->
                IF u = t
                THEN [th[t] EXCEPT !.pc = "drop", !.listed = DOMAIN graphs,
                                   !.myEpoch = epoch + 1]
                ELSE IF th[u].pc \in GenPcs /\ th[u].raced = "none"
                THEN [th[u] EXCEPT !.raced = "during"]
                ELSE th[u]]
    /\ UNCHANGED <<pubs, community_id, graphs, similar, embeds, nreq, partStart, lastRebuilt>>
    /\ UNCHANGED vecOnly

\* drop_graphs, the loop: CALL gds.graph.drop(name, False) for each listed.
DropGraphsDrop(t) ==
    /\ th[t].pc = "drop"
    /\ graphs' = [n \in DOMAIN graphs \ th[t].listed |-> graphs[n]]
    /\ th' = [th EXCEPT ![t].pc = IF th[t].kind = "task" THEN "project" ELSE "dropsim",
                        ![t].listed = {}]
    /\ UNCHANGED <<pubs, community_id, similar, embeds, nreq, epoch, partStart, lastRebuilt>>
    /\ UNCHANGED vecOnly

\* drop_similar_relationships: deletes every SIMILAR relationship.
DropSimilar(t) ==
    /\ th[t].pc = "dropsim"
    /\ similar' = {}
    /\ th' = [th EXCEPT ![t].pc = "project"]
    /\ UNCHANGED <<pubs, community_id, graphs, embeds, nreq, epoch, partStart, lastRebuilt>>
    /\ UNCHANGED vecOnly

\* create_community_graph, first statement: gds.graph.project of all nodes.
\* GDS refuses a name the catalog already holds.
ProjectCommunity(t) ==
    /\ th[t].pc = "project"
    /\ IF BibGraph \in DOMAIN graphs
       THEN /\ th' = Finish(t, "error")
            /\ UNCHANGED graphs
       ELSE /\ graphs' = [n \in DOMAIN graphs \cup {BibGraph} |->
                            IF n = BibGraph
                            THEN [nodes |-> pubs, born |-> epoch, written |-> FALSE]
                            ELSE graphs[n]]
            /\ th' = [th EXCEPT ![t].pc = "louvain"]
    /\ UNCHANGED <<pubs, community_id, similar, embeds, nreq, epoch, partStart, lastRebuilt>>
    /\ UNCHANGED vecOnly

\* A rebuild whose failed write-back is passed over: the upload goes on to
\* the embeddings.
LouvainWriteUnchecked(t) ==
    /\ th[t].pc = "louvain"
    /\ IF BibGraph \notin DOMAIN graphs
       THEN /\ th' = IF th[t].kind = "upload"
                     THEN [th EXCEPT ![t].pc = "embed"]
                     ELSE Finish(t, "error")
            /\ UNCHANGED <<community_id, partStart, lastRebuilt>>
       ELSE /\ \E f \in [graphs[BibGraph].nodes -> CIds] :
                 community_id' = [p \in PKeys |-> IF p \in graphs[BibGraph].nodes
                                                  THEN f[p] ELSE community_id[p]]
            /\ partStart' = th[t].myEpoch
            /\ lastRebuilt' = graphs[BibGraph].nodes
            /\ th' = IF th[t].kind = "upload"
                     THEN [th EXCEPT ![t].pc = "embed", ![t].wrote = TRUE]
                     ELSE [Finish(t, "ok") EXCEPT ![t].wrote = TRUE]
    /\ UNCHANGED <<pubs, graphs, similar, embeds, nreq, epoch>>
    /\ UNCHANGED vecOnly

\* A write-back that also labels the nodes stored since the projection.
LouvainIdsOfCurrentNodes(ids, nodes, f) ==
    [p \in PKeys |-> IF p \in nodes THEN f[p]
                     ELSE IF p \in pubs THEN "c1" ELSE ids[p]]

\* gds.louvain.write: community_id on every node of the projection.
LouvainIds(ids, nodes, f) ==
    [p \in PKeys |-> IF p \in nodes THEN f[p] ELSE ids[p]]

\* create_community_graph, second statement: gds.louvain.write.
LouvainWrite(t) ==
    /\ th[t].pc = "louvain"
    /\ IF BibGraph \notin DOMAIN graphs
       THEN /\ th' = Finish(t, "error")
            /\ UNCHANGED <<community_id, partStart, lastRebuilt>>
       ELSE /\ \E f \in [graphs[BibGraph].nodes -> CIds] :
                 community_id' = LouvainIds(community_id, graphs[BibGraph].nodes, f)
            /\ partStart' = th[t].myEpoch
            /\ lastRebuilt' = graphs[BibGraph].nodes
            /\ th' = IF th[t].kind = "upload"
                     THEN [th EXCEPT ![t].pc = "embed", ![t].wrote = TRUE]
                     ELSE [Finish(t, "ok") EXCEPT ![t].wrote = TRUE]
    /\ UNCHANGED <<pubs, graphs, similar, embeds, nreq, epoch>>
    /\ UNCHANGED vecOnly

\* _upload_data, last statements: get_titles and _make_embed. A store error
\* inside insert_pkeys_embeds is printed and rolled back, not raised.
MakeEmbed(t) ==
    /\ th[t].pc = "embed"
    /\ \/ embeds' = Visible(embeds, ExecuteMany(embeds, txn, EmbedRows(th[t].keys)))
       \/ embeds' = embeds
    /\ th' = [Finish(t, "ok") EXCEPT ![t].embedded = TRUE]
    /\ UNCHANGED <<pubs, community_id, graphs, similar, nreq, epoch, partStart, lastRebuilt>>
    /\ UNCHANGED vecOnly

\* Any statement may raise (store unreachable, timeout): the handler ends.
Interrupt(t) ==
    /\ ~Free(t)
    /\ th' = Finish(t, "interrupted")
    /\ UNCHANGED <<pubs, community_id, graphs, similar, embeds, nreq, epoch, partStart, lastRebuilt>>
    /\ UNCHANGED vecOnly

\* ------------------------------------------------- generate_candidates
\* The k best-scored of the matched relationships (ORDER BY r.score DESC
\* LIMIT k); Neo4j picks among equal scores as it likes.
TopK(E, k) ==
    {S \in SUBSET E :
        /\ Cardinality(S) = IF Cardinality(E) < k THEN Cardinality(E) ELSE k
        /\ \A e \in S : \A f \in E \ S : e.score >= f.score}

\* MATCH (p1 {key: pkey, community_id: cid})-[r:SIMILAR]->(p2 {community_id: cid})
Matches(sim, ids, pkey, cid) ==
    {e \in sim : e.src = pkey /\ ids[pkey] = cid /\ ids[e.dst] = cid}

StartGen(t, pkey, k) ==
    /\ Free(t)
    /\ nreq < MaxRequests
    /\ nreq' = nreq + 1
    /\ th' = [th EXCEPT ![t] = [IdleTh EXCEPT !.kind = "gen", !.pc = "cid",
                                  !.pkey = pkey, !.k = k,
                                  !.raced = IF RebuildInFlight THEN "atstart" ELSE "none"]]
    /\ UNCHANGED <<pubs, community_id, graphs, similar, embeds, epoch, partStart, lastRebuilt>>
    /\ UNCHANGED vecOnly

\* The similarity graph of community cid is in the catalog and its SIMILAR
\* relationships were written: an earlier call built it.
Ensured(cid) ==
    /\ SimGraphName(cid) \in DOMAIN graphs
    /\ graphs[SimGraphName(cid)].written

\* MATCH (p:Publication {key: $pkey}) RETURN p.community_id; result.single()
\* is None for an unknown key and the subscript raises.
GenCid(t) ==
    /\ th[t].pc = "cid"
    /\ th' = IF th[t].pkey \notin pubs
             THEN Finish(t, "error")
             ELSE [th EXCEPT ![t].pc = "exists", ![t].cid = community_id[th[t].pkey],
                             ![t].again = Ensured(community_id[th[t].pkey])]
    /\ UNCHANGED <<pubs, community_id, graphs, similar, embeds, nreq, epoch, partStart, lastRebuilt>>
    /\ UNCHANGED vecOnly

\* An existence check after which a cached graph has its SIMILAR
\* relationships written once more.
GenExistsRewrite(t) ==
    /\ th[t].pc = "exists"
    /\ th' = [th EXCEPT ![t].pc = IF SimGraphName(th[t].cid) \in DOMAIN graphs
                                  THEN "simwrite" ELSE "simproject"]
    /\ UNCHANGED <<pubs, community_id, graphs, similar, embeds, nreq, epoch, partStart, lastRebuilt>>
    /\ UNCHANGED vecOnly

\* CALL gds.graph.exists(sim_graph_<cid>)
GenExists(t) ==
    /\ th[t].pc = "exists"
    /\ th' = [th EXCEPT ![t].pc = IF SimGraphName(th[t].cid) \in DOMAIN graphs
                                  THEN "query" ELSE "simproject"]
    /\ UNCHANGED <<pubs, community_id, graphs, similar, embeds, nreq, epoch, partStart, lastRebuilt>>
    /\ UNCHANGED vecOnly

\* A projection whose node query matches the nodes without community_id
\* when cid is null.
GenProjectNull(t) ==
    /\ th[t].pc = "simproject"
    /\ IF SimGraphName(th[t].cid) \in DOMAIN graphs
       THEN /\ th' = Finish(t, "error")
            /\ UNCHANGED graphs
       ELSE /\ graphs' = [n \in DOMAIN graphs \cup {SimGraphName(th[t].cid)} |->
                            IF n = SimGraphName(th[t].cid)
                            THEN [nodes |-> {p \in pubs : community_id[p] = th[t].cid},
                                  born |-> epoch, written |-> FALSE]
                            ELSE graphs[n]]
            /\ th' = [th EXCEPT ![t].pc = "simwrite"]
    /\ UNCHANGED <<pubs, community_id, similar, embeds, nreq, epoch, partStart, lastRebuilt>>
    /\ UNCHANGED vecOnly

\* gds.graph.project.cypher of the nodes whose community_id is cid. With a
\* null community_id the node query reads "n.community_id = None", which
\* Cypher rejects; GDS refuses a name the catalog already holds.
GenProject(t) ==
    /\ th[t].pc = "simproject"
    /\ IF th[t].cid = None \/ SimGraphName(th[t].cid) \in DOMAIN graphs
       THEN /\ th' = Finish(t, "error")
            /\ UNCHANGED graphs
       ELSE /\ graphs' = [n \in DOMAIN graphs \cup {SimGraphName(th[t].cid)} |->
                            IF n = SimGraphName(th[t].cid)
                            THEN [nodes |-> {p \in pubs : community_id[p] = th[t].cid},
                                  born |-> epoch, written |-> FALSE]
                            ELSE graphs[n]]
            /\ th' = [th EXCEPT ![t].pc = "simwrite"]
    /\ UNCHANGED <<pubs, community_id, similar, embeds, nreq, epoch, partStart, lastRebuilt>>
    /\ UNCHANGED vecOnly

\* gds.nodeSimilarity.write on the projected graph of that name.
GenWrite(t) ==
    /\ th[t].pc = "simwrite"
    /\ IF SimGraphName(th[t].cid) \notin DOMAIN graphs
       THEN /\ th' = Finish(t, "error")
            /\ UNCHANGED <<graphs, similar>>
       ELSE /\ similar' = similar \cup
                    NewEdges(similar, graphs[SimGraphName(th[t].cid)].nodes, epoch)
            /\ graphs' = [graphs EXCEPT ![SimGraphName(th[t].cid)].written = TRUE]
            /\ th' = [th EXCEPT ![t].pc = "query"]
    /\ UNCHANGED <<pubs, community_id, embeds, nreq, epoch, partStart, lastRebuilt>>
    /\ UNCHANGED vecOnly

\* The final MATCH ... ORDER BY r.score DESC LIMIT k, and the return. LIMIT
\* takes an integer: with a string for k the statement raises.
GenQuery(t) ==
    /\ th[t].pc = "query"
    /\ IF th[t].kstr
       THEN th' = Finish(t, "error")
       ELSE \E S \in TopK(Matches(similar, community_id, th[t].pkey, th[t].cid), th[t].k) :
              th' = [Finish(t, "ok") EXCEPT ![t].result = S,
                          ![t].complete =
                              /\ SimGraphName(th[t].cid) \in DOMAIN graphs
                              /\ graphs[SimGraphName(th[t].cid)].written,
                          ![t].sawPrior = \E e \in S : e.born < partStart]
    /\ UNCHANGED <<pubs, community_id, graphs, similar, embeds, nreq, epoch, partStart, lastRebuilt>>
    /\ UNCHANGED vecOnly

Next ==
    \E t \in Threads :
        \/ StartReset(t)
        \/ \E kind \in {"upload", "task"} : \E keys \in Files : StartUpload(t, kind, keys)
        \/ \E keys \in Files : UploadOnly(t, keys)
        \/ DropGraphsList(t)
        \/ DropGraphsDrop(t)
        \/ DropSimilar(t)
        \/ ProjectCommunity(t)
        \/ LouvainWrite(t)
        \/ MakeEmbed(t)
        \/ Interrupt(t)
        \/ \E pkey \in PKeys : \E k \in 1..MaxK : StartGen(t, pkey, k)
        \/ GenCid(t)
        \/ GenExists(t)
        \/ GenProject(t)
        \/ GenWrite(t)
        \/ GenQuery(t)

Spec == Init /\ [][Next]_vars

\* ---------------------------------------------------------- PostgresStore
\* All threads use the one psycopg2 connection made in __init__, hence one
\* open transaction; each cursor.execute is one step.
VFree(t) == vth[t].pc \in {"idle", "done"}

\* The rows callers insert: any key with a vector of the declared length,
\* and one row whose vector is too short.
RowsOf == (VKeys \X Vecs) \cup {<<"p2", ShortVec>>}
Batches == UNION {[1..n -> RowsOf] : n \in 1..MaxBatch}

\* SELECT pkey, embed FROM embeds WHERE pkey IN keys ORDER BY pkey
SelectRows(view, keys) ==
    LET found == SortedKeys({k \in keys : view[k] # NoVec})
    IN [i \in 1..Len(found) |-> <<found[i], view[found[i]]>>]

\* The vector each key of a committed batch was last given.
RECURSIVE Upserted(_, _)
Upserted(last, rows) ==
    IF rows = <<>> THEN last
    ELSE Upserted([last EXCEPT ![Head(rows)[1]] = Head(rows)[2]], Tail(rows))

\* insert_pkeys_embeds(pkeys, embeds) is called.
StartInsert(t, batch) ==
    /\ VFree(t)
    /\ nvreq < MaxVecRequests
    /\ nvreq' = nvreq + 1
    /\ vth' = [vth EXCEPT ![t] = [IdleVth EXCEPT !.op = "insert", !.pc = "exec",
                                    !.batch = batch, !.rows = batch]]
    /\ UNCHANGED <<embeds, txn, lastUpsert>>
    /\ UNCHANGED graphOnly

\* executemany: the INSERT of the next row, in the shared transaction.
ExecRow(t) ==
    /\ vth[t].pc = "exec"
    /\ vth[t].rows # <<>>
    /\ txn' = InsertRow(embeds, txn, Head(vth[t].rows)[1], Head(vth[t].rows)[2])
    /\ vth' = [vth EXCEPT ![t].rows = Tail(vth[t].rows)]
    /\ UNCHANGED <<embeds, nvreq, lastUpsert>>
    /\ UNCHANGED graphOnly

\* self.conn.commit(): every row of the open transaction becomes durable.
Commit(t) ==
    /\ vth[t].pc = "exec"
    /\ vth[t].rows = <<>>
    /\ embeds' = Visible(embeds, txn)
    /\ txn' = NoRows
    /\ lastUpsert' = Upserted(lastUpsert, vth[t].batch)
    /\ vth' = [vth EXCEPT ![t].pc = "done", ![t].outcome = "committed"]
    /\ UNCHANGED nvreq
    /\ UNCHANGED graphOnly

\* A statement of the call raises: the handler prints the exception, runs
\* ROLLBACK on the shared connection and returns as after a commit.
InsertFails(t) ==
    /\ vth[t].pc = "exec"
    /\ txn' = NoRows
    /\ vth' = [vth EXCEPT ![t].pc = "done", ![t].outcome = "rolledback", ![t].rows = <<>>]
    /\ UNCHANGED <<embeds, nvreq, lastUpsert>>
    /\ UNCHANGED graphOnly

\* What the call remembers of the insert it has just completed.
PrevBatch(t) ==
    IF vth[t].op = "insert" /\ vth[t].pc = "done" /\ vth[t].outcome = "committed"
    THEN vth[t].batch ELSE <<>>

\* The get directly follows this caller's committed insert of the one row
\* (k, v), and no other insert of k has committed since.
DirectlyAfter(t, keys) ==
    /\ Len(PrevBatch(t)) = 1
    /\ keys = {PrevBatch(t)[1][1]}
    /\ lastUpsert[PrevBatch(t)[1][1]] = PrevBatch(t)[1][2]

\* retrieve_embeds(pkeys) with a list: WHERE pkey IN %s. An empty list makes
\* "IN ()", which Postgres rejects; any exception runs ROLLBACK and
\* returns [].
Retrieve(t, keys) ==
    /\ VFree(t)
    /\ nvreq < MaxVecRequests
    /\ nvreq' = nvreq + 1
    /\ \/ /\ keys # {}
          /\ vth' = [vth EXCEPT ![t] = [IdleVth EXCEPT !.op = "retrieve", !.pc = "done",
                        !.keys = keys, !.outcome = "rows",
                        !.out = SelectRows(Visible(embeds, txn), keys),
                        !.prev = PrevBatch(t), !.after = DirectlyAfter(t, keys)]]
          /\ UNCHANGED txn
       \/ /\ vth' = [vth EXCEPT ![t] = [IdleVth EXCEPT !.op = "retrieve", !.pc = "done",
                        !.keys = keys, !.outcome = "rolledback",
                        !.prev = PrevBatch(t), !.after = DirectlyAfter(t, keys)]]
          /\ txn' = NoRows
    /\ UNCHANGED <<embeds, lastUpsert>>
    /\ UNCHANGED graphOnly

\* retrieve_embeds(pkey) with one key: WHERE pkey = %s.
RetrieveOne(t, k) ==
    /\ VFree(t)
    /\ nvreq < MaxVecRequests
    /\ nvreq' = nvreq + 1
    /\ \/ /\ vth' = [vth EXCEPT ![t] = [IdleVth EXCEPT !.op = "retrieve_one", !.pc = "done",
                        !.keys = {k}, !.outcome = "rows",
                        !.out = SelectRows(Visible(embeds, txn), {k}),
                        !.prev = PrevBatch(t), !.after = DirectlyAfter(t, {k})]]
          /\ UNCHANGED txn
       \/ /\ vth' = [vth EXCEPT ![t] = [IdleVth EXCEPT !.op = "retrieve_one", !.pc = "done",
                        !.keys = {k}, !.outcome = "rolledback",
                        !.prev = PrevBatch(t), !.after = DirectlyAfter(t, {k})]]
          /\ txn' = NoRows
    /\ UNCHANGED <<embeds, lastUpsert>>
    /\ UNCHANGED graphOnly

NextVec ==
    \E t \in Threads :
        \/ \E batch \in Batches : StartInsert(t, batch)
        \/ ExecRow(t)
        \/ Commit(t)
        \/ InsertFails(t)
        \/ \E keys \in SUBSET VKeys : Retrieve(t, keys)
        \/ \E k \in VKeys : RetrieveOne(t, k)

InitVec == InitRest /\ InitFresh

SpecVec == InitVec /\ [][NextVec]_vars

\* ----------------------------------------------------------- GET /recommend
\* numpy arithmetic of cosine_sim, in hundredths.
RECURSIVE DotUpTo(_, _, _)
DotUpTo(x, y, n) ==
    IF n = 0 THEN 0 ELSE x[n] * y[n] + DotUpTo(x, y, n - 1)

Dot(x, y) == DotUpTo(x, y, Len(x))
SqNorm(x) == Dot(x, x)
ISqrt(n) == CHOOSE r \in 0..n : r * r <= n /\ n < (r + 1) * (r + 1)

\* np.dot(x, y) / (np.linalg.norm(x) * np.linalg.norm(y)): numpy divides
\* 0.0 by 0.0 to nan (with a warning, no exception).
cosine_sim(x, y) ==
    IF ISqrt(SqNorm(x) * SqNorm(y)) = 0 THEN NaN
    ELSE (100 * Dot(x, y)) \div ISqrt(SqNorm(x) * SqNorm(y))

\* search_by_pkey: the stored publications among pkeys that have an
\* AUTHORED_BY relationship, in the order the store yields them (the query
\* has no ORDER BY).
SearchByPkey(keys) ==
    LET Hit(p) == p \in keys /\ p \in pubs
    IN SelectSeq(authored, Hit)

\* res_cand of generate_candidates: the keys, and dict_cand, which keeps for
\* a key the score of its last record (the lowest, the records being ordered
\* by descending score).
CandKeys(S) == {e.dst : e \in S}
NodeSim(S, key) ==
    CHOOSE s \in {e.score : e \in {x \in S : x.dst = key}} :
        \A e \in {x \in S : x.dst = key} : s <= e.score

\* The rows of a returned list, as a set.
RowSet(out) == {out[i] : i \in 1..Len(out)}

\* The loop over data_recom and the filter: one entry per record of
\* search_by_pkey whose key has a row in res_embeds.
Scored(recs, rows, target, S) ==
    LET has == {rows[i][1] : i \in 1..Len(rows)}
        vec(key) == (CHOOSE r \in RowSet(rows) : r[1] = key)[2]
        Kept(p) == p \in has
        kept == SelectSeq(recs, Kept)
    IN [i \in 1..Len(kept) |->
           [key |-> kept[i],
            content_similarity |-> cosine_sim(target, vec(kept[i])),
            node_similarity |-> NodeSim(S, kept[i])]]

\* The comparison list.sort makes between the keys -content_similarity of
\* two entries; every comparison with nan is false.
SortsBefore(a, b) ==
    /\ a.content_similarity # NaN
    /\ b.content_similarity # NaN
    /\ (0 - a.content_similarity) < (0 - b.content_similarity)

\* list.sort(key=...): the stable insertion sort Python runs on short lists.
RECURSIVE InsertSorted(_, _)
InsertSorted(x, s) ==
    IF s = <<>> THEN <<x>>
    ELSE IF SortsBefore(x, Head(s)) THEN <<x>> \o s
    ELSE <<Head(s)>> \o InsertSorted(x, Tail(s))

RECURSIVE SortRecom(_)
SortRecom(s) ==
    IF s = <<>> THEN <<>>
    ELSE InsertSorted(s[Len(s)], SortRecom(SubSeq(s, 1, Len(s) - 1)))

RecFree(t) == rec[t].pc \in {"idle", "done"}

RecFail(t) == [rec EXCEPT ![t].pc = "done", ![t].outcome = "error"]

\* GET /recommend?pkey=..[&k=..]: the request arguments and the target's
\* record. serialize_search_data(res_target)[0] raises when the search
\* yields nothing.
StartRec(t, pkey, kgiven) ==
    /\ RecFree(t)
    /\ Free(t)
    /\ nreq < MaxRecRequests
    /\ nreq' = nreq + 1
    /\ rec' = IF SearchByPkey({pkey}) = <<>>
              THEN [rec EXCEPT ![t] = [IdleRec EXCEPT !.pc = "done", !.pkey = pkey,
                                          !.kgiven = kgiven, !.outcome = "error"]]
              ELSE [rec EXCEPT ![t] = [IdleRec EXCEPT !.pc = "embed", !.pkey = pkey,
                                          !.kgiven = kgiven]]
    /\ th' = [th EXCEPT ![t] = IdleTh]
    /\ UNCHANGED <<pubs, community_id, graphs, similar, embeds, epoch, partStart,
                   lastRebuilt, txn, vth, nvreq, lastUpsert, authored, bf>>

\* A handler that has called generate_candidates by the time it finds the
\* target without an embedding.
RecTargetEmbedLate(t) ==
    /\ rec[t].pc = "embed"
    /\ LET rows == SelectRows(Visible(embeds, txn), {rec[t].pkey})
           call == [th EXCEPT ![t] =
                      [IdleTh EXCEPT !.kind = "gen", !.pc = "cid",
                                     !.pkey = rec[t].pkey, !.k = DefaultK,
                                     !.kstr = rec[t].kgiven,
                                     !.raced = IF RebuildInFlight
                                               THEN "atstart" ELSE "none"]]
       IN /\ th' = call
          /\ rec' = IF rows = <<>>
                    THEN RecFail(t)
                    ELSE [rec EXCEPT ![t].pc = "cands", ![t].target = rows[1][2]]
    /\ UNCHANGED <<pubs, community_id, graphs, similar, embeds, nreq, epoch, partStart,
                   lastRebuilt, txn, vth, nvreq, lastUpsert, authored, bf>>

\* embed_target = retrieve_embeds(pkey)[0][1], which raises on an empty
\* result; then generate_candidates(pkey, k) is called, k being 25 or the
\* string of the query.
RecTargetEmbed(t) ==
    /\ rec[t].pc = "embed"
    /\ LET rows == SelectRows(Visible(embeds, txn), {rec[t].pkey})
       IN IF rows = <<>>
          THEN /\ rec' = RecFail(t)
               /\ UNCHANGED th
          ELSE /\ rec' = [rec EXCEPT ![t].pc = "cands", ![t].target = rows[1][2]]
               /\ th' = [th EXCEPT ![t] =
                            [IdleTh EXCEPT !.kind = "gen", !.pc = "cid",
                                           !.pkey = rec[t].pkey, !.k = DefaultK,
                                           !.kstr = rec[t].kgiven,
                                           !.raced = IF RebuildInFlight
                                                     THEN "atstart" ELSE "none"]]
    /\ UNCHANGED <<pubs, community_id, graphs, similar, embeds, nreq, epoch, partStart,
                   lastRebuilt, txn, vth, nvreq, lastUpsert, authored, bf>>

\* generate_candidates has returned or raised. On a return: the embeddings
\* of the candidates (an empty list takes the except branch of
\* retrieve_embeds: ROLLBACK and []), their records, the similarities, the
\* filter and the sort.
RecRank(t) ==
    /\ rec[t].pc = "cands"
    /\ th[t].pc = "done"
    /\ IF th[t].outcome # "ok"
       THEN /\ rec' = RecFail(t)
            /\ UNCHANGED txn
       ELSE LET pkeys == CandKeys(th[t].result)
                rows == IF pkeys = {} THEN <<>>
                        ELSE SelectRows(Visible(embeds, txn), pkeys)
            IN /\ rec' = [rec EXCEPT ![t].pc = "done", ![t].outcome = "ok",
                             ![t].out = SortRecom(Scored(SearchByPkey(pkeys), rows,
                                                         rec[t].target, th[t].result))]
               /\ txn' = IF pkeys = {} THEN NoRows ELSE txn
    /\ UNCHANGED <<pubs, community_id, graphs, similar, embeds, th, nreq, epoch, partStart,
                   lastRebuilt, vth, nvreq, lastUpsert, authored, bf>>

NextRec ==
    \E t \in Threads :
        \/ \E pkey \in PKeys : \E kgiven \in BOOLEAN : StartRec(t, pkey, kgiven)
        \/ RecTargetEmbed(t)
        \/ GenCid(t)
        \/ GenExists(t)
        \/ GenProject(t)
        \/ GenWrite(t)
        \/ GenQuery(t)
        \/ RecRank(t)

\* The partitions the graph may hold when the application starts: none, one
\* built before p3 was stored (if it is stored at all), or one of all three
\* publications.
RecPartitions ==
    {[p \in PKeys |-> None],
     [p \in PKeys |-> IF p = "p3" THEN None ELSE "c1"],
     [p \in PKeys |-> "c1"],
     [p \in PKeys |-> IF p = "p3" THEN "c2" ELSE "c1"]}

\* The publications with authors, in store order.
RecAuthored == {<<"p1", "p2", "p3">>, <<"p3", "p2", "p1">>, <<"p1", "p2">>}

InitRec ==
    /\ pubs \in {PKeys, InitPubs}
    /\ community_id \in {f \in RecPartitions : \A p \in PKeys \ pubs : f[p] = None}
    /\ lastRebuilt = {p \in PKeys : community_id[p] # None}
    /\ graphs = [n \in (IF lastRebuilt = {} THEN {} ELSE {BibGraph}) |->
                    [nodes |-> lastRebuilt, born |-> 0, written |-> FALSE]]
    /\ similar = {}
    /\ embeds \in {f \in [PKeys -> RecVecs \cup {NoVec}] :
                        \A p \in PKeys \ pubs : f[p] = NoVec}
    /\ authored \in {a \in RecAuthored : \A i \in 1..Len(a) : a[i] \in pubs}
    /\ th = [t \in Threads |-> IdleTh]
    /\ rec = [t \in Threads |-> IdleRec]
    /\ bf = IdleBf
    /\ nreq = 0
    /\ epoch = 0
    /\ partStart = 0
    /\ txn = NoRows
    /\ vth = [t \in Threads |-> IdleVth]
    /\ nvreq = 0
    /\ lastUpsert = NoRows

SpecRec == InitRec /\ [][NextRec]_vars

\* ---------------------------------------------------------- /db/init/embed
\* The thread that serves the one /db/init/embed request of a behaviour.
BackfillThread == 1

\* MATCH (p:Publication) WHERE p.title <> ''
TitledPubs == pubs \cap bf.titled

\* get_pkeys_and_titles_of(start, end): ORDER BY pkey SKIP start LIMIT
\* end - start.
get_pkeys_and_titles_of(start, end) ==
    LET all == SortedKeys(TitledPubs)
        last == IF end < Len(all) THEN end ELSE Len(all)
    IN SubSeq(all, start + 1, last)

\* generate_all_embeds: num_publ = get_num_publications_with_title().
StartBackfill ==
    /\ bf.pc = "idle"
    /\ VFree(BackfillThread)
    /\ bf' = [bf EXCEPT !.pc = "loop", !.i = 0, !.num = Cardinality(TitledPubs),
                        !.pubs0 = pubs, !.embeds0 = embeds]
    /\ UNCHANGED <<pubs, community_id, graphs, similar, embeds, th, nreq, epoch, partStart,
                   lastRebuilt, txn, vth, nvreq, lastUpsert, authored, rec>>

\* One turn of the loop up to the call of insert_pkeys_embeds: the page and
\* its embeddings.
BackfillBatch ==
    /\ bf.pc = "loop"
    /\ bf.i < bf.num
    /\ LET page == get_pkeys_and_titles_of(bf.i, bf.i + BatchSize)
           rows == [j \in 1..Len(page) |-> <<page[j], Encode(page[j])>>]
       IN /\ vth' = [vth EXCEPT ![BackfillThread] =
                        [IdleVth EXCEPT !.op = "insert", !.pc = "exec",
                                        !.batch = rows, !.rows = rows]]
          /\ bf' = [bf EXCEPT !.pc = "insert", !.seen = bf.seen \o page]
    /\ UNCHANGED <<pubs, community_id, graphs, similar, embeds, th, nreq, epoch, partStart,
                   lastRebuilt, txn, nvreq, lastUpsert, authored, rec>>

\* insert_pkeys_embeds has returned: the next i of the range.
BackfillNext ==
    /\ bf.pc = "insert"
    /\ vth[BackfillThread].pc = "done"
    /\ bf' = [bf EXCEPT !.pc = "loop", !.i = bf.i + BatchSize]
    /\ UNCHANGED <<pubs, community_id, graphs, similar, embeds, th, nreq, epoch, partStart,
                   lastRebuilt, txn, vth, nvreq, lastUpsert, authored, rec>>

\* The range is exhausted: return {"state": "SUCCESS"}.
BackfillReturn ==
    /\ bf.pc = "loop"
    /\ bf.i >= bf.num
    /\ bf' = [bf EXCEPT !.pc = "done"]
    /\ UNCHANGED <<pubs, community_id, graphs, similar, embeds, th, nreq, epoch, partStart,
                   lastRebuilt, txn, vth, nvreq, lastUpsert, authored, rec>>

\* The backfill, and what the other threads do meanwhile: reads of the
\* embeddings on the shared connection (as /recommend makes them) and
\* uploads that store publications.
NextEmbed ==
    \/ StartBackfill
    \/ BackfillBatch
    \/ ExecRow(BackfillThread)
    \/ Commit(BackfillThread)
    \/ InsertFails(BackfillThread)
    \/ BackfillNext
    \/ BackfillReturn
    \/ \E t \in Threads \ {BackfillThread} :
          \/ \E keys \in SUBSET VKeys : Retrieve(t, keys)
          \/ \E keys \in Files : UploadOnly(t, keys)

\* The tables the backfill may find: empty, or holding a row of p1.
BackfillTables == {NoRows, [NoRows EXCEPT !["p1"] = <<0, 1>>]}

InitEmbed ==
    /\ pubs \in {InitPubs, PKeys}
    /\ InitFresh
    /\ similar = {}
    /\ embeds \in BackfillTables
    /\ th = [t \in Threads |-> IdleTh]
    /\ nreq = 0
    /\ epoch = 0
    /\ partStart = 0
    /\ txn = NoRows
    /\ vth = [t \in Threads |-> IdleVth]
    /\ nvreq = 0
    /\ lastUpsert = NoRows
    /\ authored = <<"p1", "p2">>
    /\ rec = [t \in Threads |-> IdleRec]
    /\ bf \in {[IdleBf EXCEPT !.titled = T] : T \in {PKeys, PKeys \ {"p2"}}}

SpecEmbed == InitEmbed /\ [][NextEmbed]_vars

\* ------------------------------------------------------------ properties
GenCallers == {t \in Threads : th[t].kind = "gen"}

\* Only generate_candidates calls were ever made, two or more of them, one
\* per thread, and none was cut off.
OnlyConcurrentCallers ==
    /\ Cardinality(GenCallers) >= 2
    /\ nreq = Cardinality(GenCallers)
    /\ epoch = 0
    /\ \A t \in GenCallers : th[t].outcome # "interrupted"

\* C1: single-flight. When callers request the similarity subgraph of a
\* community that has none, every caller returns normally and the SIMILAR
\* relationships of the one build were written before its final query ran.
C1_SingleFlight ==
    OnlyConcurrentCallers =>
        \A t \in GenCallers :
            (th[t].pc = "done" /\ th[t].cid # None) =>
                (th[t].outcome = "ok" /\ th[t].complete)

\* C2: at most one rebuild of the community partition is in flight,
\* whichever entry point began it.
C2_RebuildExclusive ==
    Cardinality({t \in Threads : InRebuild(t)}) <= 1

\* C3: a generate_candidates call made while a rebuild is in progress is
\* rejected: it does not return candidates.
C3_RejectedWhileRebuilding ==
    \A t \in GenCallers :
        (th[t].pc = "done" /\ th[t].raced = "atstart") => th[t].outcome # "ok"

\* The rebuild of thread t has written its partition.
RebuildDone(t) ==
    /\ th[t].kind \in RebuildKinds
    /\ \/ th[t].pc = "embed"
       \/ th[t].pc = "done" /\ th[t].outcome = "ok"

\* C4: once a rebuild has completed, no SIMILAR relationship and no
\* projected graph made before that rebuild began exists.
C4_RebuildDropsOld ==
    \A t \in Threads :
        RebuildDone(t) =>
            /\ \A e \in similar : e.born >= th[t].myEpoch
            /\ \A n \in DOMAIN graphs : graphs[n].born >= th[t].myEpoch

\* C5: generate_candidates never returns a candidate from a SIMILAR
\* relationship written before the rebuild of the current partition began.
C5_NoPriorCandidates ==
    \A t \in GenCallers :
        (th[t].pc = "done" /\ th[t].outcome = "ok") => ~th[t].sawPrior

\* C6: every SIMILAR relationship joins two publications of one current
\* community and was written since the rebuild of the current partition.
C6_SimilarWithinCommunity ==
    \A e \in similar :
        /\ community_id[e.src] # None
        /\ community_id[e.src] = community_id[e.dst]
        /\ e.born >= partStart

\* C7: whenever no rebuild is in flight the store is on one whole partition,
\* the old or the new: the projected community graph exists exactly when
\* publications carry a community_id.
C7_WholePartition ==
    ~RebuildInFlight =>
        ((BibGraph \in DOMAIN graphs) <=> (\E p \in PKeys : community_id[p] # None))

\* C8: a publication has a community_id exactly when it was a node of the
\* projection of the last successful partition rebuild.
C8_CommunityIdIffRebuilt ==
    /\ {p \in PKeys : community_id[p] # None} = lastRebuilt
    /\ lastRebuilt \subseteq pubs

\* A rebuild of this run wrote the partition and the parser has stored a
\* publication since, which carries no community_id.
C8_Witness ==
    /\ partStart >= 1
    /\ \E p \in pubs \ lastRebuilt : community_id[p] = None

\* Thread t is the only one that has ever called the VectorStore, so its
\* calls ran one after the other with no transaction left open between them.
OnlyCaller(t) == \A u \in Threads \ {t} : vth[u].op = "none"

\* C9: round trip. A get of key k directly after the caller's own committed
\* insert of (k, v) returns exactly the row (k, v), whether or not k had a
\* stored vector before.
C9_RoundTrip ==
    \A t \in Threads :
        (/\ OnlyCaller(t)
         /\ vth[t].op \in {"retrieve", "retrieve_one"}
         /\ vth[t].outcome = "rows"
         /\ vth[t].after)
            => vth[t].out = <<vth[t].prev[1]>>

\* The threads whose one call was an insert that committed.
CommittedWriters ==
    {t \in Threads : vth[t].op = "insert" /\ vth[t].pc = "done" /\ vth[t].outcome = "committed"}

\* C10: last writer wins. When every call ever made was an insert, two or
\* more were made and all have committed, the stored vector of a key is the
\* one of the insert of that key that committed last.
C10_LastWriterWins ==
    (Cardinality(CommittedWriters) >= 2 /\ nvreq = Cardinality(CommittedWriters)) =>
        \A k \in VKeys : lastUpsert[k] # NoVec => embeds[k] = lastUpsert[k]

\* C11: every stored embedding has the declared dimension, so an insert of a
\* vector of another length stores nothing.
C11_UniformDimension ==
    \A k \in PKeys : embeds[k] # NoVec => Len(embeds[k]) = Dim

\* insert_pkeys_embeds has no return statement: the caller receives None on
\* every path, after the commit and after the rollback alike.
InsertReturn(t) == vth[t].out

\* Every key of the batch of t has a committed row.
AllStored(t) ==
    \A i \in 1..Len(vth[t].batch) : embeds[vth[t].batch[i][1]] # NoVec

\* C12: an insert_pkeys_embeds call that has returned either stored a row for
\* every pair of its batch or handed its caller a report of the failure.
C12_StoredOrReported ==
    \A t \in Threads :
        (vth[t].op = "insert" /\ vth[t].pc = "done") =>
            (AllStored(t) \/ InsertReturn(t) # <<>>)

\* C13: a retrieve_embeds call returns exactly the (key, vector) pairs of the
\* requested keys that have a committed row, whatever the key set, the empty
\* one included.
C13_GetExact ==
    [][\A t \in Threads :
          (vth'[t] # vth[t] /\ vth'[t].op \in {"retrieve", "retrieve_one"}) =>
              RowSet(vth'[t].out) =
                  {<<k, embeds[k]>> : k \in {x \in vth'[t].keys : embeds[x] # NoVec}}]_vars

\* C20: an upload whose rebuild failed made no attempt at the embeddings
\* (neither the encoder nor insert_pkeys_embeds was called) and its caller
\* was told of the failure; the embeddings are attempted only once the
\* rebuild of that upload has written its partition.
C20_AbortBeforeEmbedding ==
    \A t \in Threads :
        th[t].kind = "upload" =>
            /\ (th[t].pc = "embed" \/ th[t].embedded) => th[t].wrote
            /\ (th[t].pc = "done" /\ ~th[t].wrote) =>
                   (th[t].outcome \in {"error", "interrupted"} /\ ~th[t].embedded)

\* An upload whose create_community_graph raised has returned.
C20_Witness ==
    \E t \in Threads :
        /\ th[t].kind = "upload"
        /\ th[t].pc = "done"
        /\ th[t].outcome = "error"
        /\ ~th[t].wrote

\* Thread t runs generate_candidates for a community whose similarity graph
\* an earlier call had built when t read the community id, and no rebuild
\* has been in progress since t was called.
SecondCall(t) ==
    /\ th[t].kind = "gen"
    /\ th[t].again
    /\ th[t].raced = "none"

\* C18: idempotence. A generate_candidates call that follows a completed
\* build of the same community projects no graph and writes no SIMILAR
\* relationship: every step it takes leaves the catalog and the SIMILAR
\* relationships, scores included, as the first call left them.
C18_SecondCallWritesNothing ==
    [][\A t \in Threads :
          (SecondCall(t) /\ th'[t] # th[t]) =>
              (similar' = similar /\ graphs' = graphs)]_vars

\* A second call has returned candidates.
C18_Witness ==
    \E t \in Threads :
        /\ SecondCall(t)
        /\ th[t].pc = "done"
        /\ th[t].outcome = "ok"
        /\ th[t].result # {}

\* The generate_candidates call of thread t has read a null community_id.
NoCommunity(t) ==
    /\ th[t].kind = "gen"
    /\ th[t].pc \notin {"idle", "cid"}
    /\ th[t].cid = None

\* C14: a /recommend request for a publication without community_id fails:
\* no step of it projects a similarity graph or writes a SIMILAR
\* relationship, generate_candidates does not return, and the request ends
\* in an error.
C14_NoCommunityFails ==
    [][\A t \in Threads :
          (NoCommunity(t) /\ (th'[t] # th[t] \/ rec'[t] # rec[t])) =>
              /\ graphs' = graphs
              /\ similar' = similar
              /\ th'[t].pc = "done" => th'[t].outcome # "ok"
              /\ rec'[t].pc = "done" => rec'[t].outcome = "error"]_vars

\* A request for a publication without community_id has ended in an error
\* raised inside generate_candidates.
C14_Witness ==
    \E t \in Threads :
        /\ NoCommunity(t)
        /\ th[t].outcome = "error"
        /\ rec[t].pc = "done"
        /\ rec[t].outcome = "error"
        /\ community_id[rec[t].pkey] = None

\* The keys of the entries a /recommend request returned.
OutKeys(t) == {rec[t].out[i].key : i \in 1..Len(rec[t].out)}

\* C15: a /recommend request whose target has no stored vector fails, and
\* one that returns does so with an entry for exactly the candidates of
\* generate_candidates that have a stored vector.
C15_MissingVectors ==
    \A t \in Threads :
        rec[t].pc = "done" =>
            /\ embeds[rec[t].pkey] = NoVec => rec[t].outcome = "error"
            /\ rec[t].outcome = "ok" =>
                   OutKeys(t) = {k \in CandKeys(th[t].result) : embeds[k] # NoVec}

\* Every similarity of the returned entries is a number.
AllNumbers(out) == \A i \in 1..Len(out) : out[i].content_similarity # NaN

\* C16: the list a /recommend request returns is in descending order of
\* content_similarity, and entries of equal content_similarity are in
\* ascending order of their keys.
C16_SortedWithTieBreak ==
    \A t \in Threads :
        (rec[t].pc = "done" /\ rec[t].outcome = "ok" /\ AllNumbers(rec[t].out)) =>
            \A i, j \in 1..Len(rec[t].out) :
                i < j =>
                    \/ rec[t].out[i].content_similarity > rec[t].out[j].content_similarity
                    \/ /\ rec[t].out[i].content_similarity = rec[t].out[j].content_similarity
                       /\ KeyLess(rec[t].out[i].key, rec[t].out[j].key)

\* The requests that have ended.
RecDone == {t \in Threads : rec[t].pc = "done"}

\* C17: determinism. No publication is ingested while /recommend requests
\* are served, so any two requests with the same pkey and k end alike: both
\* fail, or both return the same entries in the same order with the same
\* scores.
C17_Deterministic ==
    \A t, u \in RecDone :
        (rec[t].pkey = rec[u].pkey /\ rec[t].kgiven = rec[u].kgiven) =>
            (rec[t].outcome = rec[u].outcome /\ rec[t].out = rec[u].out)

IngestDone == {t \in Threads : th[t].kind \in {"upload", "task"} /\
                               th[t].pc = "done" /\ th[t].outcome = "ok"}

\* C21: once an ingestion (POST /upload or the upload_data task) has
\* completed without failure, every publication of its file has a stored
\* embedding.
C21_IngestedAreEmbedded ==
    \A t \in IngestDone : \A keys \in Files : \A p \in keys : embeds[p] # NoVec

\* The similarity graphs of the catalog that no generate_candidates call in
\* flight is about to write.
SettledSimGraphs ==
    {n \in DOMAIN graphs \ {BibGraph} :
        \A t \in Threads :
            (th[t].kind = "gen" /\ th[t].pc = "simwrite") => SimGraphName(th[t].cid) # n}

\* C22: whenever the cached similarity graph of a community exists and no
\* call is in the middle of building it, the SIMILAR relationships of that
\* community have been written, so a call after a build that was cut off
\* still ends with them written.
C22_CachedMeansWritten ==
    \A n \in SettledSimGraphs : graphs[n].written

\* has_community_graph: gds.graph.list() holds a graph named bib_community.
has_community_graph == BibGraph \in DOMAIN graphs

\* C23: has_community_graph is true exactly when a partition exists, that
\* is when some publication carries a community_id, also while a later
\* rebuild is under way or has failed.
C23_ReportsPartition ==
    has_community_graph <=> (\E p \in PKeys : community_id[p] # None)

\* The keys of the rows of a batch.
BatchKeys(batch) == {batch[i][1] : i \in 1..Len(batch)}

\* C24: a commit makes durable rows of the committing call's own batch
\* only, and a rollback discards pending rows of the call that rolls back
\* only: no call commits early or rolls back a row of another batch in
\* flight.
C24_OwnRowsOnly ==
    [][\A t \in Threads :
          /\ (vth[t].pc = "exec" /\ vth'[t].pc = "done" /\ vth'[t].outcome = "committed") =>
                 \A k \in PKeys : embeds'[k] # embeds[k] => k \in BatchKeys(vth[t].batch)
          /\ (vth'[t] # vth[t] /\ vth'[t].pc = "done" /\ vth'[t].outcome = "rolledback") =>
                 \A k \in PKeys : txn'[k] # txn[k] => k \in BatchKeys(vth'[t].batch)]_vars

\* C25: there is at most one SIMILAR relationship for each ordered pair of
\* publications, so no key appears twice among the candidates
\* generate_candidates returns.
C25_OneEdgePerPair ==
    \A e, f \in similar : (e.src = f.src /\ e.dst = f.dst) => e = f

\* The target of the request of thread t is unknown to search_by_pkey or has
\* no stored embedding.
TargetMissing(t) ==
    \/ SearchByPkey({rec[t].pkey}) = <<>>
    \/ embeds[rec[t].pkey] = NoVec

\* C26: a /recommend request whose target is unknown or has no stored
\* embedding fails before generate_candidates is called: the request ends
\* in an error and its thread never entered generate_candidates, so it
\* projected no similarity graph and wrote no SIMILAR relationship.
C26_FailsBeforeCandidates ==
    \A t \in Threads :
        (rec[t].pc = "done" /\ TargetMissing(t)) =>
            (rec[t].outcome = "error" /\ th[t].kind = "none")

\* A request for a known publication without a stored embedding has failed
\* while its community has no similarity graph.
C26_Witness ==
    \E t \in Threads :
        /\ rec[t].pc = "done"
        /\ rec[t].outcome = "error"
        /\ SearchByPkey({rec[t].pkey}) # <<>>
        /\ embeds[rec[t].pkey] = NoVec
        /\ community_id[rec[t].pkey] # None
        /\ SimGraphName(community_id[rec[t].pkey]) \notin DOMAIN graphs

\* How often the pages of the backfill held key p.
Visits(p) == Cardinality({j \in 1..Len(bf.seen) : bf.seen[j] = p})

\* C27: when the bulk backfill has returned and no publication was added
\* while it ran, every titled publication was on exactly one page, every
\* titled publication has a stored embedding, and every embedding that
\* existed before is unchanged.
C27_BackfillCovers ==
    (bf.pc = "done" /\ pubs = bf.pubs0) =>
        /\ \A p \in PKeys : Visits(p) = IF p \in TitledPubs THEN 1 ELSE 0
        /\ \A p \in TitledPubs : embeds[p] # NoVec
        /\ \A p \in PKeys : bf.embeds0[p] # NoVec => embeds[p] = bf.embeds0[p]

====
